---- MODULE Spec2Model ----
(***************************************************************************)
(* A model of the two facades of the scene viewer:                         *)
(*   ViewManager  (src/ViewManager.cpp)  - camera, input, projection mode  *)
(*   SceneManager (src/SceneManager.cpp) - texture and material catalogs,  *)
(*                                          shader uniforms, the frame     *)
(*                                                                         *)
(* Numbers.  The program computes in float; the model computes in fixed    *)
(* point:                                                                  *)
(*   angles            whole degrees                                       *)
(*   direction vectors 1/10000 (a unit vector has length 10000)            *)
(*   speeds            1/10 (2.5 is 25)                                    *)
(*   time              ticks of 0.1 s                                      *)
(*   positions         1/1000000 (= direction unit * speed unit * tick)    *)
(*   mouse coordinates pixels                                              *)
(*   model matrices, scales and scene positions  1/10000                   *)
(*   UV scales, material and light coefficients  1/100                     *)
(***************************************************************************)
EXTENDS Integers, Sequences, FiniteSets, TLC

VARIABLES
    \* ---- ViewManager.cpp: the translation unit's globals ----
    g_pCamera,                 \* the Camera object: Position, Front, Up, Right, Yaw, Pitch, MovementSpeed
    gLastX, gLastY,            \* last recorded mouse position
    gFirstMouse,               \* no mouse position recorded yet
    gDeltaTime, gLastFrame,    \* per-frame timing
    gCameraSpeed,              \* scroll-driven movement speed
    bOrthographicProjection,   \* the mode flag
    perspective,               \* perspectivePosition/Front/Up/Yaw/Pitch
    orthographic,              \* orthographicPosition/Front/Up/Yaw/Pitch
    cameraStatesInitialized,
    pKeyWasPressed, oKeyWasPressed,   \* the function-local statics of ProcessKeyboardEvents
    windowShouldClose,         \* the window's close flag
    \* ---- what the environment did and saw in the latest operation ----
    lastOp,                    \* the operation that ran last
    calls,                     \* the mode switches the latest operation invoked, in order
    toggleKeys,                \* the keys among P, O reported pressed in the latest frame
    mouseEvt,                  \* the latest reported mouse position, <<>> before the first report
    mouseFwd,                  \* the offsets the latest mouse report forwarded to the camera
    \* ---- SceneManager.cpp: the members of the scene manager ----
    m_textureIDs,              \* the texture array: slot -> [ID, tag]
    m_loadedTextures,          \* the number of slots in use
    m_objectMaterials,         \* the material vector
    m_pShaderManager,          \* the shader manager the constructor was given, or "NULL"
    \* ---- the libraries the scene manager drives ----
    glGenerated,               \* the number of texture names glGenTextures has handed out
    imagesHeld,                \* decoded image buffers not yet given back to stbi_image_free
    glActiveTexture,           \* the active texture unit
    glTextureUnits,            \* texture unit -> the texture name bound to GL_TEXTURE_2D, 0 for none
    uniforms,                  \* the uniforms of the shader program
    faulted,                   \* the process dereferenced a null pointer
    meshLoads,                 \* mesh -> the number of times m_basicMeshes loaded it
    frameCalls,                \* the calls the latest RenderScene issued, in order
    sceneCall                  \* the latest scene manager call: its arguments and what it returned

viewVars == << g_pCamera, gLastX, gLastY, gFirstMouse, gDeltaTime, gLastFrame,
               gCameraSpeed, bOrthographicProjection, perspective, orthographic,
               cameraStatesInitialized, pKeyWasPressed, oKeyWasPressed,
               windowShouldClose,
               lastOp, calls, toggleKeys, mouseEvt, mouseFwd >>

\* the texture catalog and the GL texture state
textureVars == << m_textureIDs, m_loadedTextures, glGenerated, imagesHeld,
                  glActiveTexture, glTextureUnits >>

\* the shader manager and its program
shaderVars == << m_pShaderManager, uniforms, faulted >>

\* the meshes and the frame
frameVars == << meshLoads, frameCalls >>

sceneVars == << textureVars, m_objectMaterials, shaderVars, frameVars, sceneCall >>

vars == << viewVars, sceneVars >>

-----------------------------------------------------------------------------
(* Bounds of the exploration *)

\* the texture catalog is filled up to this many entries
MaxTextures == 3
\* glGenTextures hands out up to this many names
MaxGLNames == 4
\* DefineObjectMaterials is called up to this many times
MaxDefines == 2
\* PrepareScene is called up to this many times
MaxPrepares == 1
\* RenderScene is called up to this many times
MaxFrames == 2

\* frames advance the clock up to this many ticks
MaxTime == 1
\* the yaw stays within this many quarter turns of the default yaw
MaxTurns == 1

-----------------------------------------------------------------------------
(* Program constants *)

WINDOW_WIDTH == 1000
WINDOW_HEIGHT == 800
\* 0.5 and 10.0, in tenths
MIN_CAMERA_SPEED == 5
MAX_CAMERA_SPEED == 100
\* gCameraSpeed = 2.5
InitialCameraSpeed == 25
\* static_cast<float>(yOffset) * 0.5f, in tenths per scroll unit
ScrollStep == 5

Keys == {"ESCAPE", "W", "S", "A", "D", "Q", "E", "P", "O"}

-----------------------------------------------------------------------------
(* Vector and angle arithmetic *)

VAdd(a, b) == << a[1] + b[1], a[2] + b[2], a[3] + b[3] >>
VSub(a, b) == << a[1] - b[1], a[2] - b[2], a[3] - b[3] >>
VScale(a, k) == << a[1] * k, a[2] * k, a[3] * k >>

\* round-to-nearest division of a product of two 1/10000 quantities
Mul4(a, b) ==
    LET p == a * b
    IN  IF p >= 0 THEN (p + 5000) \div 10000 ELSE -((-p + 5000) \div 10000)

\* sin of the angles of the first quadrant the model uses, in 1/10000
SinQ(a) ==
    CASE a = 0  -> 0
      [] a = 1  -> 175
      [] a = 45 -> 7071
      [] a = 89 -> 9998
      [] a = 90 -> 10000

Sin(d) ==
    LET m == d % 360
    IN  IF m <= 90 THEN SinQ(m)
        ELSE IF m <= 180 THEN SinQ(180 - m)
        ELSE IF m <= 270 THEN -SinQ(m - 180)
        ELSE -SinQ(360 - m)

Cos(d) == Sin(d + 90)

-----------------------------------------------------------------------------
(* The Camera helper class (camera.h).  Its attributes are public and the   *)
(* ViewManager reads and writes them directly.                              *)

\* the camera's defaults
YAW == -90
PITCH == 0
\* SPEED = 2.5, in tenths
SPEED == 25
\* 1 / SENSITIVITY: an offset of ten pixels turns the camera one degree
PixelsPerDegree == 10
PitchLimit == 89

\* Front, Right and Up from Yaw and Pitch:
\*   Front = (cos yaw cos pitch, sin pitch, sin yaw cos pitch)
\*   Right = normalize(Front x WorldUp) = (-sin yaw, 0, cos yaw)
\*   Up    = normalize(Right x Front)   = (-cos yaw sin pitch, cos pitch, -sin yaw sin pitch)
updateCameraVectors(c) ==
    [c EXCEPT
       !.Front = << Mul4(Cos(c.Yaw), Cos(c.Pitch)), Sin(c.Pitch), Mul4(Sin(c.Yaw), Cos(c.Pitch)) >>,
       !.Right = << -Sin(c.Yaw), 0, Cos(c.Yaw) >>,
       !.Up    = << -Mul4(Cos(c.Yaw), Sin(c.Pitch)), Cos(c.Pitch), -Mul4(Sin(c.Yaw), Sin(c.Pitch)) >>]

\* Camera(): the defaults, then updateCameraVectors()
NewCamera ==
    updateCameraVectors(
        [Position |-> <<0, 0, 0>>, Front |-> <<0, 0, -10000>>, Up |-> <<0, 10000, 0>>,
         Right |-> <<10000, 0, 0>>, Yaw |-> YAW, Pitch |-> PITCH, MovementSpeed |-> SPEED])

ClampPitch(p) == IF p > PitchLimit THEN PitchLimit ELSE IF p < -PitchLimit THEN -PitchLimit ELSE p

\* ProcessMouseMovement(xoffset, yoffset): turn by the offsets times the
\* sensitivity, keep the pitch within +-89 degrees, recompute the basis
ProcessMouseMovement(c, xoffset, yoffset) ==
    updateCameraVectors(
        [c EXCEPT !.Yaw = c.Yaw + xoffset \div PixelsPerDegree,
                  !.Pitch = ClampPitch(c.Pitch + yoffset \div PixelsPerDegree)])

\* ProcessKeyboard(direction, deltaTime): velocity = MovementSpeed * deltaTime
ProcessKeyboard(c, direction, deltaTime) ==
    LET velocity == c.MovementSpeed * deltaTime
    IN  CASE direction = "FORWARD"  -> [c EXCEPT !.Position = VAdd(c.Position, VScale(c.Front, velocity))]
          [] direction = "BACKWARD" -> [c EXCEPT !.Position = VSub(c.Position, VScale(c.Front, velocity))]
          [] direction = "LEFT"     -> [c EXCEPT !.Position = VSub(c.Position, VScale(c.Right, velocity))]
          [] direction = "RIGHT"    -> [c EXCEPT !.Position = VAdd(c.Position, VScale(c.Right, velocity))]
          [] direction = "UP"       -> [c EXCEPT !.Position = VAdd(c.Position, VScale(c.Up, velocity))]
          [] direction = "DOWN"     -> [c EXCEPT !.Position = VSub(c.Position, VScale(c.Up, velocity))]

-----------------------------------------------------------------------------
(* ViewManager *)

\* the five attributes the mode switches save and load
Pose(c) == [Position |-> c.Position, Front |-> c.Front, Up |-> c.Up, Yaw |-> c.Yaw, Pitch |-> c.Pitch]

LoadPose(c, slot) ==
    [c EXCEPT !.Position = slot.Position, !.Front = slot.Front, !.Up = slot.Up,
              !.Yaw = slot.Yaw, !.Pitch = slot.Pitch]

\* the part of the state the mode switches read and write
ViewState == [cam |-> g_pCamera, persp |-> perspective, ortho |-> orthographic,
              bOrtho |-> bOrthographicProjection, init |-> cameraStatesInitialized]

\* ViewManager::ViewManager
ViewInit ==
    LET cam == [NewCamera EXCEPT !.Position = <<0, 5000000, 12000000>>,
                                 !.Front = <<0, -5000, -20000>>,
                                 !.Up = <<0, 10000, 0>>]
    IN  /\ g_pCamera = cam
        /\ perspective = Pose(cam)
        /\ orthographic = [Position |-> <<0, 15000000, 0>>, Front |-> <<0, -10000, 0>>,
                           Up |-> <<0, 0, -10000>>, Yaw |-> -90, Pitch |-> -89]
        /\ cameraStatesInitialized = TRUE
        /\ bOrthographicProjection = FALSE
        /\ gLastX = WINDOW_WIDTH \div 2
        /\ gLastY = WINDOW_HEIGHT \div 2
        /\ gFirstMouse = TRUE
        /\ gDeltaTime = 0
        /\ gLastFrame = 0
        /\ gCameraSpeed = InitialCameraSpeed
        /\ pKeyWasPressed = FALSE
        /\ oKeyWasPressed = FALSE
        /\ windowShouldClose = FALSE
        /\ lastOp = "ViewManager"
        /\ calls = << >>
        /\ toggleKeys = {}
        /\ mouseEvt = << >>
        /\ mouseFwd = << >>

\* SwitchToOrthographic without its guard: it saves and loads in either mode
SwitchToOrthographicUnguarded(v) ==
    [v EXCEPT !.persp = Pose(v.cam),
              !.cam = ProcessMouseMovement(LoadPose(v.cam, v.ortho), 0, 0),
              !.bOrtho = TRUE]

\* ViewManager::SwitchToOrthographic, as a function of the view state
SwitchToOrthographic(v) ==
    IF ~v.bOrtho /\ v.init
    THEN [v EXCEPT !.persp = Pose(v.cam),
                   !.cam = ProcessMouseMovement(LoadPose(v.cam, v.ortho), 0, 0),
                   !.bOrtho = TRUE]
    ELSE v

\* SwitchToPerspective without the zero-offset ProcessMouseMovement: the
\* camera keeps the front and up loaded from the slot
SwitchToPerspectiveNoUpdate(v) ==
    IF v.bOrtho /\ v.init
    THEN [v EXCEPT !.ortho = Pose(v.cam),
                   !.cam = LoadPose(v.cam, v.persp),
                   !.bOrtho = FALSE]
    ELSE v

\* SwitchToPerspective without the save of the orthographic pose
SwitchToPerspectiveNoSave(v) ==
    IF v.bOrtho /\ v.init
    THEN [v EXCEPT !.cam = ProcessMouseMovement(LoadPose(v.cam, v.persp), 0, 0),
                   !.bOrtho = FALSE]
    ELSE v

\* ViewManager::SwitchToPerspective, as a function of the view state
SwitchToPerspective(v) ==
    IF v.bOrtho /\ v.init
    THEN [v EXCEPT !.ortho = Pose(v.cam),
                   !.cam = ProcessMouseMovement(LoadPose(v.cam, v.persp), 0, 0),
                   !.bOrtho = FALSE]
    ELSE v

\* the view state v written back to the globals
SetViewState(v) ==
    /\ g_pCamera' = v.cam
    /\ perspective' = v.persp
    /\ orthographic' = v.ortho
    /\ bOrthographicProjection' = v.bOrtho
    /\ cameraStatesInitialized' = v.init

\* the offsets without the inversion of the vertical one
MouseOffsetsNotInverted(first, lastX, lastY, xMousePos, yMousePos) ==
    IF first THEN << 0, 0 >> ELSE << xMousePos - lastX, yMousePos - lastY >>

\* the offsets of Mouse_Position_Callback: the first report takes its own
\* position as the last one
MouseOffsets(first, lastX, lastY, xMousePos, yMousePos) ==
    LET lx == IF first THEN xMousePos ELSE lastX
        ly == IF first THEN yMousePos ELSE lastY
    IN  << xMousePos - lx, ly - yMousePos >>

\* ViewManager::Mouse_Position_Callback
Mouse_Position_Callback(xMousePos, yMousePos) ==
    LET off == MouseOffsets(gFirstMouse, gLastX, gLastY, xMousePos, yMousePos)
        xOffset == off[1]
        yOffset == off[2]
        cam == ProcessMouseMovement(g_pCamera, xOffset, yOffset)
    IN  /\ (cam.Yaw - YAW) <= 90 * MaxTurns
        /\ (YAW - cam.Yaw) <= 90 * MaxTurns
        /\ gFirstMouse' = FALSE
        /\ gLastX' = xMousePos
        /\ gLastY' = yMousePos
        /\ g_pCamera' = cam
        /\ mouseEvt' = << xMousePos, yMousePos >>
        /\ mouseFwd' = << xOffset, yOffset >>
        /\ lastOp' = "Mouse_Position_Callback"
        /\ calls' = << >>
        /\ UNCHANGED << gDeltaTime, gLastFrame, gCameraSpeed, bOrthographicProjection,
                        perspective, orthographic, cameraStatesInitialized,
                        pKeyWasPressed, oKeyWasPressed, windowShouldClose, toggleKeys >>

\* the clamp without its upper branch
ClampSpeedLowerOnly(speed) ==
    IF speed < MIN_CAMERA_SPEED THEN MIN_CAMERA_SPEED ELSE speed

\* the clamp of Mouse_Scroll_Callback
ClampSpeed(speed) ==
    IF speed < MIN_CAMERA_SPEED THEN MIN_CAMERA_SPEED
    ELSE IF speed > MAX_CAMERA_SPEED THEN MAX_CAMERA_SPEED
    ELSE speed

\* ViewManager::Mouse_Scroll_Callback
Mouse_Scroll_Callback(yOffset) ==
    LET speed == ClampSpeed(gCameraSpeed + yOffset * ScrollStep)
    IN  /\ gCameraSpeed' = speed
        /\ g_pCamera' = [g_pCamera EXCEPT !.MovementSpeed = speed]
        /\ lastOp' = "Mouse_Scroll_Callback"
        /\ calls' = << >>
        /\ UNCHANGED << gLastX, gLastY, gFirstMouse, gDeltaTime, gLastFrame,
                        bOrthographicProjection, perspective, orthographic,
                        cameraStatesInitialized, pKeyWasPressed, oKeyWasPressed,
                        windowShouldClose, toggleKeys, mouseEvt, mouseFwd >>

\* a call of SwitchToOrthographic from outside the frame loop
CallSwitchToOrthographic ==
    /\ SetViewState(SwitchToOrthographic(ViewState))
    /\ lastOp' = "SwitchToOrthographic"
    /\ calls' = << "SwitchToOrthographic" >>
    /\ UNCHANGED << gLastX, gLastY, gFirstMouse, gDeltaTime, gLastFrame, gCameraSpeed,
                    pKeyWasPressed, oKeyWasPressed, windowShouldClose,
                    toggleKeys, mouseEvt, mouseFwd >>

\* a call of SwitchToPerspective from outside the frame loop
CallSwitchToPerspective ==
    /\ SetViewState(SwitchToPerspective(ViewState))
    /\ lastOp' = "SwitchToPerspective"
    /\ calls' = << "SwitchToPerspective" >>
    /\ UNCHANGED << gLastX, gLastY, gFirstMouse, gDeltaTime, gLastFrame, gCameraSpeed,
                    pKeyWasPressed, oKeyWasPressed, windowShouldClose,
                    toggleKeys, mouseEvt, mouseFwd >>

\* the movement keys of ProcessKeyboardEvents, in the order the code polls them
MoveKeys == << <<"W", "FORWARD">>, <<"S", "BACKWARD">>, <<"A", "LEFT">>,
               <<"D", "RIGHT">>, <<"Q", "UP">>, <<"E", "DOWN">> >>

RECURSIVE MoveCamera(_, _, _, _)
MoveCamera(c, keys, deltaTime, i) ==
    IF i > Len(MoveKeys) THEN c
    ELSE MoveCamera(IF MoveKeys[i][1] \in keys
                    THEN ProcessKeyboard(c, MoveKeys[i][2], deltaTime)
                    ELSE c,
                    keys, deltaTime, i + 1)

\* the P key of ProcessKeyboardEvents: pKeyIsPressed && !pKeyWasPressed
PKeyFires(keys, wasPressed) == "P" \in keys /\ ~wasPressed

\* the O key read as a level: the switch repeats while the key is held
OKeyLevel(keys, wasPressed) == "O" \in keys

\* the O key of ProcessKeyboardEvents: oKeyIsPressed && !oKeyWasPressed
OKeyFires(keys, wasPressed) == "O" \in keys /\ ~wasPressed

\* ProcessKeyboardEvents that keeps the slot of the current mode equal to the
\* pose the movement keys leave
ProcessKeyboardEventsTrackingSlot(v, keys, deltaTime) ==
    LET cam == MoveCamera(v.cam, keys, deltaTime, 1)
        v1 == IF v.bOrtho
              THEN [v EXCEPT !.cam = cam, !.ortho = Pose(cam)]
              ELSE [v EXCEPT !.cam = cam, !.persp = Pose(cam)]
        pFires == PKeyFires(keys, pKeyWasPressed)
        v2 == IF pFires THEN SwitchToPerspective(v1) ELSE v1
        oFires == OKeyFires(keys, oKeyWasPressed)
        v3 == IF oFires THEN SwitchToOrthographic(v2) ELSE v2
    IN  [view |-> v3,
         calls |-> (IF pFires THEN << "SwitchToPerspective" >> ELSE << >>)
                   \o (IF oFires THEN << "SwitchToOrthographic" >> ELSE << >>),
         close |-> windowShouldClose \/ "ESCAPE" \in keys,
         pKey |-> "P" \in keys,
         oKey |-> "O" \in keys]

\* ProcessKeyboardEvents that handles the O key before the P key
ProcessKeyboardEventsOFirst(v, keys, deltaTime) ==
    LET v1 == [v EXCEPT !.cam = MoveCamera(v.cam, keys, deltaTime, 1)]
        oFires == OKeyFires(keys, oKeyWasPressed)
        v2 == IF oFires THEN SwitchToOrthographic(v1) ELSE v1
        pFires == PKeyFires(keys, pKeyWasPressed)
        v3 == IF pFires THEN SwitchToPerspective(v2) ELSE v2
    IN  [view |-> v3,
         calls |-> (IF oFires THEN << "SwitchToOrthographic" >> ELSE << >>)
                   \o (IF pFires THEN << "SwitchToPerspective" >> ELSE << >>),
         close |-> windowShouldClose \/ "ESCAPE" \in keys,
         pKey |-> "P" \in keys,
         oKey |-> "O" \in keys]

\* ViewManager::ProcessKeyboardEvents with the keys `keys` down: the view
\* state it leaves and the switches it invoked
ProcessKeyboardEvents(v, keys, deltaTime) ==
    LET v1 == [v EXCEPT !.cam = MoveCamera(v.cam, keys, deltaTime, 1)]
        pFires == PKeyFires(keys, pKeyWasPressed)
        v2 == IF pFires THEN SwitchToPerspective(v1) ELSE v1
        oFires == OKeyFires(keys, oKeyWasPressed)
        v3 == IF oFires THEN SwitchToOrthographic(v2) ELSE v2
    IN  [view |-> v3,
         calls |-> (IF pFires THEN << "SwitchToPerspective" >> ELSE << >>)
                   \o (IF oFires THEN << "SwitchToOrthographic" >> ELSE << >>),
         close |-> windowShouldClose \/ "ESCAPE" \in keys,
         pKey |-> "P" \in keys,
         oKey |-> "O" \in keys]

\* ViewManager::PrepareSceneView, one frame: the clock reads currentFrame
PrepareSceneView(currentFrame, keys) ==
    LET deltaTime == currentFrame - gLastFrame
        r == ProcessKeyboardEvents(ViewState, keys, deltaTime)
    IN  /\ currentFrame <= MaxTime
        /\ gDeltaTime' = deltaTime
        /\ gLastFrame' = currentFrame
        /\ SetViewState(r.view)
        /\ pKeyWasPressed' = r.pKey
        /\ oKeyWasPressed' = r.oKey
        /\ windowShouldClose' = r.close
        /\ calls' = r.calls
        /\ toggleKeys' = keys \cap {"P", "O"}
        /\ lastOp' = "PrepareSceneView"
        /\ UNCHANGED << gLastX, gLastY, gFirstMouse, gCameraSpeed, mouseEvt, mouseFwd >>

-----------------------------------------------------------------------------
(* SceneManager: the texture and material catalogs *)

\* "There are up to 16 slots"
TextureSlots == 16

NoTexture == [ID |-> 0, tag |-> ""]

\* an OBJECT_MATERIAL; colours and scalars in 1/100
Material(tag, ambientColor, ambientStrength, diffuseColor, specularColor, shininess) ==
    [tag |-> tag, ambientColor |-> ambientColor, ambientStrength |-> ambientStrength,
     diffuseColor |-> diffuseColor, specularColor |-> specularColor, shininess |-> shininess]

\* the five coefficients of a material
Coefficients(m) == << m.ambientColor, m.ambientStrength, m.diffuseColor, m.specularColor, m.shininess >>

\* the catalog: the slots in use, in insertion order
TextureCatalog == [i \in 1..m_loadedTextures |-> m_textureIDs[i - 1]]

\* the uniforms of a freshly linked program: all zero
NoUniforms ==
    [model |-> << <<0, 0, 0, 0>>, <<0, 0, 0, 0>>, <<0, 0, 0, 0>>, <<0, 0, 0, 0>> >>,
     objectColor |-> <<0, 0, 0, 0>>,
     bUseTexture |-> FALSE,
     objectTexture |-> 0,
     UVscale |-> <<0, 0>>,
     material |-> << <<0, 0, 0>>, 0, <<0, 0, 0>>, <<0, 0, 0>>, 0 >>,
     bUseLighting |-> FALSE,
     lights |-> << >>]

Meshes == {"plane", "box", "pyramid4", "cone"}

\* SceneManager::SceneManager(pShaderManager).  The constructor assigns
\* neither the texture array nor its counter; the catalog is taken to start
\* empty.
SceneInitWith(pShaderManager) ==
    /\ m_textureIDs = [i \in 0..(TextureSlots - 1) |-> NoTexture]
    /\ m_loadedTextures = 0
    /\ m_objectMaterials = << >>
    /\ m_pShaderManager = pShaderManager
    /\ glGenerated = 0
    /\ imagesHeld = 0
    /\ glActiveTexture = 0
    /\ glTextureUnits = [u \in 0..(TextureSlots - 1) |-> 0]
    /\ uniforms = NoUniforms
    /\ faulted = FALSE
    /\ meshLoads = [m \in Meshes |-> 0]
    /\ frameCalls = << >>
    /\ sceneCall = [op |-> "SceneManager"]

\* the scene manager of the application: it is given a shader manager
SceneInit == SceneInitWith("ShaderManager")

Init == ViewInit /\ SceneInit

\* a scene manager constructed with either pointer
ShaderManagers == {"NULL", "ShaderManager"}
SceneInitAny == ViewInit /\ \E pShaderManager \in ShaderManagers : SceneInitWith(pShaderManager)

\* what stbi_load can give: no image, or an image of 1 to 4 channels
DecodeOutcomes ==
    {[image |-> FALSE, colorChannels |-> 0]} \cup {[image |-> TRUE, colorChannels |-> c] : c \in 1..4}

\* the texture catalog and the GL texture state as one value
TextureState ==
    [m_textureIDs |-> m_textureIDs, m_loadedTextures |-> m_loadedTextures,
     glGenerated |-> glGenerated, imagesHeld |-> imagesHeld,
     glActiveTexture |-> glActiveTexture, glTextureUnits |-> glTextureUnits]

SetTextureState(t) ==
    /\ m_textureIDs' = t.m_textureIDs
    /\ m_loadedTextures' = t.m_loadedTextures
    /\ glGenerated' = t.glGenerated
    /\ imagesHeld' = t.imagesHeld
    /\ glActiveTexture' = t.glActiveTexture
    /\ glTextureUnits' = t.glTextureUnits

\* CreateGLTexture that overwrites the entry of a tag the catalog already has
CreateGLTextureByTag(t, decoded, tag) ==
    LET textureID == t.glGenerated + 1
        supported == decoded.colorChannels = 3 \/ decoded.colorChannels = 4
        have == {i \in 0..(t.m_loadedTextures - 1) : t.m_textureIDs[i].tag = tag}
    IN  IF decoded.image
        THEN IF supported
             THEN [ret |-> TRUE,
                   t |-> IF have = {}
                         THEN [t EXCEPT !.glGenerated = textureID,
                                        !.glTextureUnits[t.glActiveTexture] = 0,
                                        !.m_textureIDs[t.m_loadedTextures] = [ID |-> textureID, tag |-> tag],
                                        !.m_loadedTextures = @ + 1]
                         ELSE [t EXCEPT !.glGenerated = textureID,
                                        !.glTextureUnits[t.glActiveTexture] = 0,
                                        !.m_textureIDs = [i \in DOMAIN t.m_textureIDs |->
                                                            IF i \in have
                                                            THEN [ID |-> textureID, tag |-> tag]
                                                            ELSE t.m_textureIDs[i]]]]
             ELSE [ret |-> FALSE,
                   t |-> [t EXCEPT !.glGenerated = textureID,
                                   !.glTextureUnits[t.glActiveTexture] = textureID,
                                   !.imagesHeld = @ + 1]]
        ELSE [ret |-> FALSE, t |-> t]

\* CreateGLTexture that registers the texture before it looks at the channels
CreateGLTextureRegisterFirst(t, decoded, tag) ==
    LET textureID == t.glGenerated + 1
        supported == decoded.colorChannels = 3 \/ decoded.colorChannels = 4
    IN  IF decoded.image
        THEN [ret |-> supported,
              t |-> [t EXCEPT !.glGenerated = textureID,
                              !.glTextureUnits[t.glActiveTexture] = IF supported THEN 0 ELSE textureID,
                              !.m_textureIDs[t.m_loadedTextures] = [ID |-> textureID, tag |-> tag],
                              !.m_loadedTextures = @ + 1,
                              !.imagesHeld = IF supported THEN @ ELSE @ + 1]]
        ELSE [ret |-> FALSE, t |-> t]

\* SceneManager::CreateGLTexture on a file that decodes as `decoded`: what it
\* returns and the texture state it leaves.
\*   image, 3 or 4 channels: glGenTextures, glBindTexture on the active unit,
\*     upload, stbi_image_free, glBindTexture(0), register, return true
\*   image, other channel count: glGenTextures, glBindTexture, return false
\*     (the image buffer and the texture stay)
\*   no image: return false
CreateGLTexture(t, decoded, tag) ==
    LET textureID == t.glGenerated + 1
        supported == decoded.colorChannels = 3 \/ decoded.colorChannels = 4
    IN  IF decoded.image
        THEN IF supported
             THEN [ret |-> TRUE,
                   t |-> [t EXCEPT !.glGenerated = textureID,
                                   !.glTextureUnits[t.glActiveTexture] = 0,
                                   !.m_textureIDs[t.m_loadedTextures] = [ID |-> textureID, tag |-> tag],
                                   !.m_loadedTextures = @ + 1]]
             ELSE [ret |-> FALSE,
                   t |-> [t EXCEPT !.glGenerated = textureID,
                                   !.glTextureUnits[t.glActiveTexture] = textureID,
                                   !.imagesHeld = @ + 1]]
        ELSE [ret |-> FALSE, t |-> t]

\* a call of CreateGLTexture
CallCreateGLTexture(decoded, tag) ==
    /\ glGenerated < MaxGLNames
    /\ m_loadedTextures < MaxTextures
    /\ SetTextureState(CreateGLTexture(TextureState, decoded, tag).t)
    /\ sceneCall' = [op |-> "CreateGLTexture", tag |-> tag, decoded |-> decoded,
                     ret |-> CreateGLTexture(TextureState, decoded, tag).ret]
    /\ UNCHANGED << m_objectMaterials, shaderVars, frameVars >>

\* the loop of SceneManager::FindTextureSlot from `index` on
RECURSIVE FindTextureSlotFrom(_, _)
FindTextureSlotFrom(tag, index) ==
    IF index < m_loadedTextures
    THEN IF m_textureIDs[index].tag = tag
         THEN index
         ELSE FindTextureSlotFrom(tag, index + 1)
    ELSE -1

\* FindTextureSlot that keeps scanning after a match: the last match wins
FindTextureSlotLast(tag) ==
    LET have == {i \in 0..(m_loadedTextures - 1) : m_textureIDs[i].tag = tag}
    IN  IF have = {} THEN -1 ELSE CHOOSE i \in have : \A j \in have : j <= i

\* SceneManager::FindTextureSlot
FindTextureSlot(tag) == FindTextureSlotFrom(tag, 0)

\* a call of FindTextureSlot
CallFindTextureSlot(tag) ==
    /\ sceneCall' = [op |-> "FindTextureSlot", tag |-> tag, ret |-> FindTextureSlot(tag)]
    /\ UNCHANGED << textureVars, m_objectMaterials, shaderVars, frameVars >>

\* the loop of SceneManager::FindMaterial from `index` (counted from 0) on:
\* the material it leaves in the caller's variable
RECURSIVE FindMaterialFrom(_, _, _)
FindMaterialFrom(tag, material, index) ==
    IF index < Len(m_objectMaterials)
    THEN IF m_objectMaterials[index + 1].tag = tag
         THEN [material EXCEPT
                 !.ambientColor = m_objectMaterials[index + 1].ambientColor,
                 !.ambientStrength = m_objectMaterials[index + 1].ambientStrength,
                 !.diffuseColor = m_objectMaterials[index + 1].diffuseColor,
                 !.specularColor = m_objectMaterials[index + 1].specularColor,
                 !.shininess = m_objectMaterials[index + 1].shininess]
         ELSE FindMaterialFrom(tag, material, index + 1)
    ELSE material

\* SceneManager::FindMaterial: what it returns and what it leaves in the
\* caller's `material`
FindMaterial(tag, material) ==
    IF Len(m_objectMaterials) = 0
    THEN [ret |-> FALSE, material |-> material]
    ELSE [ret |-> TRUE, material |-> FindMaterialFrom(tag, material, 0)]

\* the materials a caller's variable may hold before the call
CallerMaterials ==
    { Material("", <<0, 0, 0>>, 0, <<0, 0, 0>>, <<0, 0, 0>>, 0),
      Material("", <<7, 7, 7>>, 7, <<7, 7, 7>>, <<7, 7, 7>>, 7) }

\* a call of FindMaterial
CallFindMaterial(tag, material) ==
    /\ sceneCall' = [op |-> "FindMaterial", tag |-> tag, before |-> material,
                     ret |-> FindMaterial(tag, material).ret,
                     material |-> FindMaterial(tag, material).material]
    /\ UNCHANGED << textureVars, m_objectMaterials, shaderVars, frameVars >>

\* the five materials of SceneManager::DefineObjectMaterials
SceneMaterials ==
    << Material("grass",   <<40, 60, 30>>, 3, <<40, 60, 30>>, <<35, 45, 35>>, 500),
       Material("dirt",    <<50, 40, 30>>, 1, <<50, 40, 30>>, <<18, 18, 18>>, 120),
       Material("brick",   <<60, 40, 30>>, 5, <<60, 40, 30>>, <<45, 35, 35>>, 400),
       Material("hedge",   <<30, 50, 20>>, 6, <<30, 50, 20>>, <<22, 32, 22>>, 300),
       Material("foliage", <<35, 55, 25>>, 6, <<35, 55, 25>>, <<28, 35, 28>>, 700) >>

\* SceneManager::DefineObjectMaterials
DefineObjectMaterials ==
    /\ Len(m_objectMaterials) < MaxDefines * Len(SceneMaterials)
    /\ m_objectMaterials' = m_objectMaterials \o SceneMaterials
    /\ sceneCall' = [op |-> "DefineObjectMaterials"]
    /\ UNCHANGED << textureVars, shaderVars, frameVars >>

\* the loop of SceneManager::BindGLTextures from `i` on: entry i goes to unit i
RECURSIVE BindGLTexturesFrom(_, _)
BindGLTexturesFrom(t, i) ==
    IF i < t.m_loadedTextures
    THEN BindGLTexturesFrom([t EXCEPT !.glActiveTexture = i,
                                      !.glTextureUnits[i] = t.m_textureIDs[i].ID], i + 1)
    ELSE t

\* BindGLTextures that counts the units from 1
BindGLTexturesFromOne(t) ==
    [t EXCEPT !.glActiveTexture = IF t.m_loadedTextures > 0 THEN t.m_loadedTextures ELSE @,
              !.glTextureUnits = [u \in DOMAIN t.glTextureUnits |->
                                    IF u >= 1 /\ u <= t.m_loadedTextures
                                    THEN t.m_textureIDs[u - 1].ID
                                    ELSE t.glTextureUnits[u]]]

\* SceneManager::BindGLTextures
BindGLTextures(t) == BindGLTexturesFrom(t, 0)

\* a call of BindGLTextures
CallBindGLTextures ==
    /\ SetTextureState(BindGLTextures(TextureState))
    /\ sceneCall' = [op |-> "BindGLTextures"]
    /\ UNCHANGED << m_objectMaterials, shaderVars, frameVars >>

\* the loop of SceneManager::DestroyGLTextures from `i` on: glGenTextures
\* writes a fresh name into entry i
RECURSIVE DestroyGLTexturesFrom(_, _)
DestroyGLTexturesFrom(t, i) ==
    IF i < t.m_loadedTextures
    THEN DestroyGLTexturesFrom([t EXCEPT !.glGenerated = @ + 1,
                                         !.m_textureIDs[i].ID = t.glGenerated + 1], i + 1)
    ELSE t

\* SceneManager::DestroyGLTextures
DestroyGLTextures(t) == DestroyGLTexturesFrom(t, 0)

\* a call of DestroyGLTextures
CallDestroyGLTextures ==
    /\ glGenerated + m_loadedTextures <= MaxGLNames
    /\ SetTextureState(DestroyGLTextures(TextureState))
    /\ sceneCall' = [op |-> "DestroyGLTextures"]
    /\ UNCHANGED << m_objectMaterials, shaderVars, frameVars >>

\* the texture names that are allocated: glGenTextures hands them out in
\* order and the program never calls glDeleteTextures
GLTextures == 1..glGenerated

-----------------------------------------------------------------------------
(* SceneManager: the render-state pushers.  A pusher works on the shader    *)
(* program's state p: its uniforms, whether the process has faulted, and   *)
(* the names of the uniforms uploaded so far.  Scales and positions are in *)
(* 1/10000, UV scales and colours in 1/100.                                *)

ShaderState == [uniforms |-> uniforms, faulted |-> faulted, uploads |-> << >>]

\* m_pShaderManager->set...Value(name, value)
Upload(p, name, value) ==
    [p EXCEPT !.uniforms = [@ EXCEPT ![name] = value], !.uploads = Append(@, name)]

MaterialUniforms ==
    << "material.ambientColor", "material.ambientStrength", "material.diffuseColor",
       "material.specularColor", "material.shininess" >>

\* the five set...Value calls of SetShaderMaterial
UploadMaterial(p, material) ==
    [p EXCEPT !.uniforms.material = Coefficients(material),
              !.uploads = @ \o MaterialUniforms]

\* SceneManager::SetShaderMaterial.  `material` is what the local variable
\* holds before FindMaterial is called: it is declared without initialiser.
\* The uploads go through m_pShaderManager without a null test; through a
\* null pointer the process faults.
SetShaderMaterial(p, materialTag, material) ==
    IF ~p.faulted /\ Len(m_objectMaterials) > 0
    THEN IF FindMaterial(materialTag, material).ret
         THEN IF m_pShaderManager = "NULL"
              THEN [p EXCEPT !.faulted = TRUE]
              ELSE UploadMaterial(p, FindMaterial(materialTag, material).material)
         ELSE p
    ELSE p

\* a pusher's result becomes the program's state
SetShaderState(p) ==
    /\ uniforms' = p.uniforms
    /\ faulted' = p.faulted

\* a call of SetShaderMaterial
CallSetShaderMaterial(materialTag, material) ==
    /\ ~faulted
    /\ SetShaderState(SetShaderMaterial(ShaderState, materialTag, material))
    /\ sceneCall' = [op |-> "SetShaderMaterial", tag |-> materialTag,
                     uploads |-> SetShaderMaterial(ShaderState, materialTag, material).uploads]
    /\ UNCHANGED << textureVars, m_objectMaterials, m_pShaderManager, frameVars >>

\* SetShaderTexture that uploads only for a tag the catalog has
SetShaderTextureIfFound(p, textureTag) ==
    IF ~p.faulted /\ m_pShaderManager # "NULL" /\ FindTextureSlot(textureTag) >= 0
    THEN Upload(Upload(p, "bUseTexture", TRUE), "objectTexture", FindTextureSlot(textureTag))
    ELSE p

\* SceneManager::SetShaderTexture
SetShaderTexture(p, textureTag) ==
    IF ~p.faulted /\ m_pShaderManager # "NULL"
    THEN Upload(Upload(p, "bUseTexture", TRUE), "objectTexture", FindTextureSlot(textureTag))
    ELSE p

\* a call of SetShaderTexture
CallSetShaderTexture(textureTag) ==
    /\ ~faulted
    /\ SetShaderState(SetShaderTexture(ShaderState, textureTag))
    /\ sceneCall' = [op |-> "SetShaderTexture", tag |-> textureTag,
                     uploads |-> SetShaderTexture(ShaderState, textureTag).uploads]
    /\ UNCHANGED << textureVars, m_objectMaterials, m_pShaderManager, frameVars >>

\* SceneManager::SetShaderColor
SetShaderColor(p, redColorValue, greenColorValue, blueColorValue, alphaValue) ==
    IF ~p.faulted /\ m_pShaderManager # "NULL"
    THEN Upload(Upload(p, "bUseTexture", FALSE), "objectColor",
                << redColorValue, greenColorValue, blueColorValue, alphaValue >>)
    ELSE p

\* a call of SetShaderColor
CallSetShaderColor(color) ==
    /\ ~faulted
    /\ SetShaderState(SetShaderColor(ShaderState, color[1], color[2], color[3], color[4]))
    /\ sceneCall' = [op |-> "SetShaderColor", color |-> color,
                     uploads |-> SetShaderColor(ShaderState, color[1], color[2], color[3], color[4]).uploads]
    /\ UNCHANGED << textureVars, m_objectMaterials, m_pShaderManager, frameVars >>

\* SceneManager::SetTextureUVScale
SetTextureUVScale(p, u, v) ==
    IF ~p.faulted /\ m_pShaderManager # "NULL"
    THEN Upload(p, "UVscale", << u, v >>)
    ELSE p

\* a call of SetTextureUVScale
CallSetTextureUVScale(u, v) ==
    /\ ~faulted
    /\ SetShaderState(SetTextureUVScale(ShaderState, u, v))
    /\ sceneCall' = [op |-> "SetTextureUVScale", uv |-> << u, v >>,
                     uploads |-> SetTextureUVScale(ShaderState, u, v).uploads]
    /\ UNCHANGED << textureVars, m_objectMaterials, m_pShaderManager, frameVars >>

\* 1.0 in the 1/10000 fixed point of the matrices
One == 10000

\* row i of A times column j of B
MatEntry(A, B, i, j) ==
    Mul4(A[i][1], B[1][j]) + Mul4(A[i][2], B[2][j])
  + Mul4(A[i][3], B[3][j]) + Mul4(A[i][4], B[4][j])

MatRow(A, B, i) ==
    << MatEntry(A, B, i, 1), MatEntry(A, B, i, 2), MatEntry(A, B, i, 3), MatEntry(A, B, i, 4) >>

\* the product of two 4x4 matrices (rows of columns)
MatMul(A, B) == << MatRow(A, B, 1), MatRow(A, B, 2), MatRow(A, B, 3), MatRow(A, B, 4) >>

\* row i of A times the column vector v
VecEntry(A, v, i) ==
    Mul4(A[i][1], v[1]) + Mul4(A[i][2], v[2]) + Mul4(A[i][3], v[3]) + Mul4(A[i][4], v[4])

\* a 4x4 matrix applied to a column vector
MatVec(A, v) == << VecEntry(A, v, 1), VecEntry(A, v, 2), VecEntry(A, v, 3), VecEntry(A, v, 4) >>

\* glm::scale(v)
glm_scale(v) ==
    << << v[1], 0, 0, 0 >>, << 0, v[2], 0, 0 >>, << 0, 0, v[3], 0 >>, << 0, 0, 0, One >> >>

\* glm::rotate(glm::radians(degrees), axis) for the three coordinate axes
glm_rotate(degrees, axis) ==
    LET c == Cos(degrees)
        s == Sin(degrees)
    IN  CASE axis = <<1, 0, 0>> ->
               << << One, 0, 0, 0 >>, << 0, c, -s, 0 >>, << 0, s, c, 0 >>, << 0, 0, 0, One >> >>
          [] axis = <<0, 1, 0>> ->
               << << c, 0, s, 0 >>, << 0, One, 0, 0 >>, << -s, 0, c, 0 >>, << 0, 0, 0, One >> >>
          [] axis = <<0, 0, 1>> ->
               << << c, -s, 0, 0 >>, << s, c, 0, 0 >>, << 0, 0, One, 0 >>, << 0, 0, 0, One >> >>

\* glm::translate(v)
glm_translate(v) ==
    << << One, 0, 0, v[1] >>, << 0, One, 0, v[2] >>, << 0, 0, One, v[3] >>, << 0, 0, 0, One >> >>

\* the modelView of a SetTransformations that multiplies in the reverse order
ModelViewReversed(scaleXYZ, XrotationDegrees, YrotationDegrees, ZrotationDegrees, positionXYZ) ==
    MatMul(MatMul(MatMul(MatMul(glm_scale(scaleXYZ),
                                glm_rotate(ZrotationDegrees, <<0, 0, 1>>)),
                         glm_rotate(YrotationDegrees, <<0, 1, 0>>)),
                  glm_rotate(XrotationDegrees, <<1, 0, 0>>)),
           glm_translate(positionXYZ))

\* modelView = translation * rotationX * rotationY * rotationZ * scale
ModelView(scaleXYZ, XrotationDegrees, YrotationDegrees, ZrotationDegrees, positionXYZ) ==
    MatMul(MatMul(MatMul(MatMul(glm_translate(positionXYZ),
                                glm_rotate(XrotationDegrees, <<1, 0, 0>>)),
                         glm_rotate(YrotationDegrees, <<0, 1, 0>>)),
                  glm_rotate(ZrotationDegrees, <<0, 0, 1>>)),
           glm_scale(scaleXYZ))

\* the end of SetTransformations: modelView goes to the shader manager, if
\* there is one
SetModel(p, modelView) ==
    IF ~p.faulted /\ m_pShaderManager # "NULL"
    THEN Upload(p, "model", modelView)
    ELSE p

\* SceneManager::SetTransformations
SetTransformations(p, scaleXYZ, XrotationDegrees, YrotationDegrees, ZrotationDegrees, positionXYZ) ==
    SetModel(p, ModelView(scaleXYZ, XrotationDegrees, YrotationDegrees,
                          ZrotationDegrees, positionXYZ))

\* a call of SetTransformations
CallSetTransformations(scaleXYZ, rotation, positionXYZ) ==
    /\ ~faulted
    /\ LET p == SetTransformations(ShaderState, scaleXYZ, rotation[1], rotation[2],
                                   rotation[3], positionXYZ)
       IN  /\ SetShaderState(p)
           /\ sceneCall' = [op |-> "SetTransformations", scaleXYZ |-> scaleXYZ,
                            rotation |-> rotation, positionXYZ |-> positionXYZ,
                            uploads |-> p.uploads]
    /\ UNCHANGED << textureVars, m_objectMaterials, m_pShaderManager, frameVars >>

-----------------------------------------------------------------------------
(* SceneManager: preparing and rendering the scene *)

\* LoadSceneTextures that loads the dirt before the grass
SceneTextureTagsDirtFirst == << "dirt", "grass", "brick", "hedge", "foliage" >>

\* the tags of LoadSceneTextures, in the order of its five CreateGLTexture calls
SceneTextureTags == << "grass", "dirt", "brick", "hedge", "foliage" >>

\* the loads of LoadSceneTextures from the i-th on; decodes[i] is what the
\* i-th file decodes to, the return values are dropped
RECURSIVE LoadSceneTexturesFrom(_, _, _)
LoadSceneTexturesFrom(t, decodes, i) ==
    IF i <= Len(SceneTextureTags)
    THEN LoadSceneTexturesFrom(CreateGLTexture(t, decodes[i], SceneTextureTags[i]).t, decodes, i + 1)
    ELSE t

\* SceneManager::LoadSceneTextures: the five loads, then BindGLTextures
LoadSceneTextures(t, decodes) == BindGLTextures(LoadSceneTexturesFrom(t, decodes, 1))

\* the lights of SetupSceneLights, in 1/100
SceneLights ==
    << [name |-> "directionalLight", direction |-> <<-50, -100, -30>>, ambient |-> <<20, 20, 20>>,
        diffuse |-> <<150, 150, 140>>, specular |-> <<100, 100, 100>>, bActive |-> TRUE],
       [name |-> "pointLights[0]", position |-> <<350, 500, 150>>, ambient |-> <<10, 10, 10>>,
        diffuse |-> <<40, 40, 35>>, specular |-> <<30, 30, 30>>, bActive |-> TRUE],
       [name |-> "pointLights[1]", position |-> <<-350, 500, 650>>, ambient |-> <<15, 10, 5>>,
        diffuse |-> <<80, 60, 30>>, specular |-> <<40, 30, 20>>, bActive |-> TRUE] >>

\* SceneManager::SetupSceneLights: every upload goes through m_pShaderManager
\* without a null test
SetupSceneLights(p) ==
    IF p.faulted
    THEN p
    ELSE IF m_pShaderManager = "NULL"
         THEN [p EXCEPT !.faulted = TRUE]
         ELSE Upload(Upload(p, "bUseLighting", TRUE), "lights", SceneLights)

\* SceneManager::PrepareScene on files that decode as `decodes`: the four
\* mesh loads, LoadSceneTextures, DefineObjectMaterials, SetupSceneLights
PrepareScene(decodes) ==
    /\ ~faulted
    /\ meshLoads["plane"] < MaxPrepares
    /\ meshLoads' = [m \in Meshes |-> meshLoads[m] + 1]
    /\ SetTextureState(LoadSceneTextures(TextureState, decodes))
    /\ m_objectMaterials' = m_objectMaterials \o SceneMaterials
    /\ SetShaderState(SetupSceneLights(ShaderState))
    /\ sceneCall' = [op |-> "PrepareScene", decodes |-> decodes]
    /\ UNCHANGED << m_pShaderManager, frameCalls >>

\* the calls RenderScene is made of.  A SetTransformations call carries the
\* modelView its arguments give, which does not depend on the state.
Transform(scaleXYZ, YrotationDegrees, positionXYZ) ==
    [call |-> "SetTransformations", scaleXYZ |-> scaleXYZ,
     rotation |-> << 0, YrotationDegrees, 0 >>, positionXYZ |-> positionXYZ,
     modelView |-> ModelView(scaleXYZ, 0, YrotationDegrees, 0, positionXYZ)]
UVScale(u, v) == [call |-> "SetTextureUVScale", uv |-> << u, v >>]
ShaderMaterial(tag) == [call |-> "SetShaderMaterial", tag |-> tag]
ShaderTexture(tag) == [call |-> "SetShaderTexture", tag |-> tag]
MeshCall(call) == [call |-> call]

\* an object whose texture comes before its material
ObjectTextureFirst(scaleXYZ, YrotationDegrees, positionXYZ, u, v, tag, draw) ==
    << Transform(scaleXYZ, YrotationDegrees, positionXYZ), UVScale(u, v),
       ShaderTexture(tag), ShaderMaterial(tag), MeshCall(draw) >>

\* the block RenderScene writes for a plane and for each topiary part
Object(scaleXYZ, YrotationDegrees, positionXYZ, u, v, tag, draw) ==
    << Transform(scaleXYZ, YrotationDegrees, positionXYZ), UVScale(u, v),
       ShaderMaterial(tag), ShaderTexture(tag), MeshCall(draw) >>

\* a brick that is placed and not drawn
BrickNotDrawn(positionXYZ) ==
    << Transform(<<5000, 1500, 5000>>, 45, positionXYZ) >>

\* the two lines RenderScene writes for each brick of the path
Brick(positionXYZ) ==
    << Transform(<<5000, 1500, 5000>>, 45, positionXYZ), MeshCall("DrawBoxMesh") >>

\* the brick path: its UV scale, material and texture once, then ten bricks
BrickPath ==
    << UVScale(100, 100), ShaderMaterial("brick"), ShaderTexture("brick") >>
    \o Brick(<<-12000, 800, 72000>>) \o Brick(<<-16000, 800, 76000>>)
    \o Brick(<<-20000, 800, 80000>>) \o Brick(<<-24000, 800, 84000>>)
    \o Brick(<<-28000, 800, 88000>>)
    \o Brick(<<-8000, 800, 76000>>) \o Brick(<<-12000, 800, 80000>>)
    \o Brick(<<-16000, 800, 84000>>) \o Brick(<<-20000, 800, 88000>>)
    \o Brick(<<-24000, 800, 92000>>)

\* a rectangular hedge with a cone of foliage on it
ConeTopiary(hedgeXYZ, coneScaleXYZ, coneXYZ) ==
    Object(<<20000, 10000, 15000>>, 45, hedgeXYZ, 150, 100, "hedge", "DrawBoxMesh")
    \o Object(coneScaleXYZ, 45, coneXYZ, 120, 120, "foliage", "DrawConeMesh")

\* the body of SceneManager::RenderScene, call by call
RenderCalls ==
    Object(<<200000, 10000, 150000>>, 0, <<0, 0, 0>>, 400, 200, "grass", "DrawPlaneMesh")
    \o Object(<<80000, 35000, 80000>>, 0, <<0, 200, 65000>>, 200, 200, "dirt", "DrawPlaneMesh")
    \o BrickPath
    \o Object(<<20000, 10000, 15000>>, 45, <<0, 7500, 65000>>, 200, 100, "hedge", "DrawBoxMesh")
    \o Object(<<15000, 25000, 15000>>, 45, <<0, 25000, 65000>>, 150, 150, "foliage", "DrawPyramid4Mesh")
    \o << MeshCall("LoadConeMesh") >>
    \o ConeTopiary(<<15000, 7500, 50000>>, <<7000, 10000, 7000>>, <<15000, 12500, 50000>>)
    \o ConeTopiary(<<30000, 7500, 35000>>, <<7500, 10000, 7500>>, <<30000, 12500, 35000>>)
    \o ConeTopiary(<<45000, 7500, 20000>>, <<6500, 10000, 6500>>, <<45000, 12500, 20000>>)

DrawCalls == {"DrawPlaneMesh", "DrawBoxMesh", "DrawPyramid4Mesh", "DrawConeMesh"}
PusherCalls == {"SetTransformations", "SetTextureUVScale", "SetShaderMaterial", "SetShaderTexture"}

\* one call of RenderScene acting on the shader program
Issue(p, c, material) ==
    CASE c.call = "SetTransformations" -> SetModel(p, c.modelView)
      [] c.call = "SetTextureUVScale" -> SetTextureUVScale(p, c.uv[1], c.uv[2])
      [] c.call = "SetShaderMaterial" -> SetShaderMaterial(p, c.tag, material)
      [] c.call = "SetShaderTexture" -> SetShaderTexture(p, c.tag)
      [] OTHER -> p

\* what a frame keeps of a call: its name, its tag if it has one, the
\* uniforms it uploaded and the sampler index in the program after it
Issued(c, q) ==
    [call |-> c.call,
     tag |-> IF c.call \in {"SetShaderMaterial", "SetShaderTexture"} THEN c.tag ELSE "",
     uploads |-> q.uploads,
     objectTexture |-> q.uniforms.objectTexture]

\* the calls of RenderScene from the i-th on; a fault ends the frame
RECURSIVE RunCalls(_, _, _, _)
RunCalls(f, body, i, material) ==
    IF i > Len(body) \/ f.p.faulted
    THEN f
    ELSE LET c == body[i]
             q == Issue([f.p EXCEPT !.uploads = << >>], c, material)
         IN  RunCalls([p |-> q,
                       issued |-> Append(f.issued, Issued(c, q)),
                       meshLoads |-> IF c.call = "LoadConeMesh"
                                     THEN [f.meshLoads EXCEPT !["cone"] = @ + 1]
                                     ELSE f.meshLoads],
                      body, i + 1, material)

\* SceneManager::RenderScene; `material` is what the uninitialised local of
\* SetShaderMaterial holds
RenderScene(material) ==
    /\ ~faulted
    /\ meshLoads["cone"] - meshLoads["plane"] < MaxFrames
    /\ LET f == RunCalls([p |-> ShaderState, issued |-> << >>, meshLoads |-> meshLoads],
                         RenderCalls, 1, material)
       IN  /\ SetShaderState(f.p)
           /\ frameCalls' = f.issued
           /\ meshLoads' = f.meshLoads
    /\ sceneCall' = [op |-> "RenderScene"]
    /\ UNCHANGED << textureVars, m_objectMaterials, m_pShaderManager >>

\* the tags the calls are made with
TextureTags == {"", "grass", "dirt"}
MaterialTags == {"", "grass", "foliage", "stone"}

SceneNext ==
    \/ \E decoded \in DecodeOutcomes, tag \in TextureTags :
          CallCreateGLTexture(decoded, tag) /\ UNCHANGED viewVars
    \/ \E tag \in TextureTags :
          CallFindTextureSlot(tag) /\ UNCHANGED viewVars
    \/ \E tag \in MaterialTags, material \in CallerMaterials :
          CallFindMaterial(tag, material) /\ UNCHANGED viewVars
    \/ DefineObjectMaterials /\ UNCHANGED viewVars

SceneSpec == SceneInitAny /\ [][SceneNext]_vars

-----------------------------------------------------------------------------
(* Specifications *)

\* one step of the view manager's environment, its inputs drawn from the
\* mouse positions ms, the scroll deltas ds, the key sets ks and the clock
\* advances dts
ViewNextOn(ms, ds, ks, dts) ==
    \/ \E m \in ms : Mouse_Position_Callback(m[1], m[2]) /\ UNCHANGED sceneVars
    \/ \E d \in ds : Mouse_Scroll_Callback(d) /\ UNCHANGED sceneVars
    \/ CallSwitchToOrthographic /\ UNCHANGED sceneVars
    \/ CallSwitchToPerspective /\ UNCHANGED sceneVars
    \/ \E dt \in dts, keys \in ks :
          PrepareSceneView(gLastFrame + dt, keys) /\ UNCHANGED sceneVars

\* the mode switches over poses that differ in position, yaw and pitch
ModeMouse == {<<0, 0>>, <<900, 890>>}
ModeKeySets == {{}, {"W"}, {"A"}, {"P"}, {"O"}, {"P", "O"}}
ModeSpec == Init /\ [][ViewNextOn(ModeMouse, {0}, ModeKeySets, {1})]_vars

\* the toggle keys over every pattern of P and O across frames
KeyMouse == {<<0, 0>>}
KeyKeySets == SUBSET {"P", "O", "W"} \cup {{"ESCAPE"}}
KeySpec == Init /\ [][ViewNextOn(KeyMouse, {0}, KeyKeySets, {0, 1})]_vars

\* scrolling: steps that stay inside the limits and steps that overshoot them
ScrollDeltas == {-30, -4, 4, 30}
ScrollKeySets == {{}, {"W"}, {"P"}, {"O"}}
ScrollSpec == Init /\ [][ViewNextOn(KeyMouse, ScrollDeltas, ScrollKeySets, {1})]_vars

\* mouse reports at the corners of a square
PointerMouse == {0, 900} \X {0, 900}
PointerKeySets == {{}, {"P"}, {"O"}}
MouseSpec == Init /\ [][ViewNextOn(PointerMouse, {0}, PointerKeySets, {1})]_vars

-----------------------------------------------------------------------------
(* Claims about the view manager *)

\* C1: in PERSPECTIVE mode, SwitchToOrthographic followed by
\* SwitchToPerspective leaves the live camera's position, front, up, yaw and
\* pitch equal to their values before the first call.
RoundTripRestoresPose ==
    ~bOrthographicProjection =>
        Pose(SwitchToPerspective(SwitchToOrthographic(ViewState)).cam) = Pose(g_pCamera)

\* C2: a second SwitchToOrthographic in a row changes nothing the first one
\* left (live pose, both slots, mode flag); the same for SwitchToPerspective.
SameDirectionIdempotent ==
    /\ SwitchToOrthographic(SwitchToOrthographic(ViewState)) = SwitchToOrthographic(ViewState)
    /\ SwitchToPerspective(SwitchToPerspective(ViewState)) = SwitchToPerspective(ViewState)

\* the switch has acted on a pose that differs from the orthographic one, so
\* that saving it again would overwrite the perspective slot
SameDirectionWitness ==
    /\ lastOp = "SwitchToOrthographic"
    /\ bOrthographicProjection
    /\ perspective # Pose(g_pCamera)
    /\ perspective.Yaw # YAW

\* C3: the mode starts as PERSPECTIVE and is one of two values; it changes
\* only in a step that invokes a switch; SwitchToOrthographic taken in
\* PERSPECTIVE stores the live pose in the perspective slot, loads the
\* orthographic slot's position, yaw and pitch and sets ORTHOGRAPHIC, and
\* SwitchToPerspective taken in ORTHOGRAPHIC does the symmetric thing.
ModeMachine ==
    /\ bOrthographicProjection = FALSE
    /\ [][/\ bOrthographicProjection' \in BOOLEAN
          /\ bOrthographicProjection' # bOrthographicProjection =>
                 IF bOrthographicProjection'
                 THEN calls'[Len(calls')] = "SwitchToOrthographic"
                 ELSE calls' = << "SwitchToPerspective" >>
          /\ (lastOp' = "SwitchToOrthographic" /\ ~bOrthographicProjection) =>
                 /\ perspective' = Pose(g_pCamera)
                 /\ orthographic' = orthographic
                 /\ g_pCamera'.Position = orthographic.Position
                 /\ g_pCamera'.Yaw = orthographic.Yaw
                 /\ g_pCamera'.Pitch = orthographic.Pitch
                 /\ bOrthographicProjection'
          /\ (lastOp' = "SwitchToPerspective" /\ bOrthographicProjection) =>
                 /\ orthographic' = Pose(g_pCamera)
                 /\ perspective' = perspective
                 /\ g_pCamera'.Position = perspective.Position
                 /\ g_pCamera'.Yaw = perspective.Yaw
                 /\ g_pCamera'.Pitch = perspective.Pitch
                 /\ ~bOrthographicProjection'
         ]_viewVars

\* a switch back to PERSPECTIVE has stored an orthographic pose that the
\* user had moved and turned
ModeMachineWitness ==
    /\ lastOp = "SwitchToPerspective"
    /\ ~bOrthographicProjection
    /\ orthographic.Position # <<0, 15000000, 0>>
    /\ orthographic.Yaw # -90
    /\ perspective.Yaw # YAW

\* the switch is among the invocations cs
Invoked(switch, cs) == \E i \in 1..Len(cs) : cs[i] = switch

\* C4: in a frame, SwitchToOrthographic is invoked exactly when O is down and
\* was not down in the previous frame, and SwitchToPerspective exactly when P
\* is down and was not down in the previous frame.
ToggleKeysEdgeTriggered ==
    [][lastOp' = "PrepareSceneView" =>
         /\ Invoked("SwitchToOrthographic", calls') <=> ("O" \in toggleKeys' /\ "O" \notin toggleKeys)
         /\ Invoked("SwitchToPerspective", calls') <=> ("P" \in toggleKeys' /\ "P" \notin toggleKeys)
      ]_viewVars

\* a frame in which O is still held from the frame before: no switch
ToggleKeysWitness ==
    /\ lastOp = "PrepareSceneView"
    /\ "O" \in toggleKeys
    /\ oKeyWasPressed
    /\ calls = << >>
    /\ bOrthographicProjection
    /\ gLastFrame = MaxTime

\* C5: the movement speed stays within [0.5, 10.0], and after a scroll the
\* camera's movement speed is that speed.
ScrollSpeedWithinLimits ==
    /\ gCameraSpeed >= MIN_CAMERA_SPEED
    /\ gCameraSpeed <= MAX_CAMERA_SPEED
    /\ lastOp = "Mouse_Scroll_Callback" => g_pCamera.MovementSpeed = gCameraSpeed

\* a scroll has overshot the upper limit: no sum of the steps of ScrollSpec
\* is the limit itself
ScrollSpeedWitness ==
    /\ lastOp = "Mouse_Scroll_Callback"
    /\ gCameraSpeed = MAX_CAMERA_SPEED
    /\ g_pCamera.MovementSpeed = MAX_CAMERA_SPEED

\* C6: the first mouse report forwards the offsets (0, 0); every later one
\* forwards (x - previous x, previous y - y); each records (x, y) as the last
\* position.
MouseOffsetsForwarded ==
    [][lastOp' = "Mouse_Position_Callback" =>
         /\ mouseFwd' = IF mouseEvt = << >>
                        THEN << 0, 0 >>
                        ELSE << mouseEvt'[1] - mouseEvt[1], mouseEvt[2] - mouseEvt'[2] >>
         /\ gLastX' = mouseEvt'[1]
         /\ gLastY' = mouseEvt'[2]
      ]_viewVars

\* a later report that moved right and down: a positive horizontal and a
\* negative vertical offset
MouseOffsetsWitness ==
    /\ lastOp = "Mouse_Position_Callback"
    /\ mouseFwd = << 900, -900 >>
    /\ mouseEvt = << 900, 900 >>

-----------------------------------------------------------------------------
(* Claims about the catalogs *)

\* the latest CreateGLTexture call decoded an image of 3 or 4 channels
LoadedSupported(call) ==
    /\ call.op = "CreateGLTexture"
    /\ call.decoded.image
    /\ call.decoded.colorChannels \in {3, 4}

\* C7: a CreateGLTexture call whose image decodes with 3 or 4 channels
\* returns true and appends one entry with the given tag at the end of the
\* catalog, leaving the earlier entries as they were, also when the tag is
\* already in the catalog.
LoadAppendsOneEntry ==
    [][LoadedSupported(sceneCall') =>
         /\ sceneCall'.ret = TRUE
         /\ Len(TextureCatalog') = Len(TextureCatalog) + 1
         /\ TextureCatalog'[Len(TextureCatalog')].tag = sceneCall'.tag
         /\ \A i \in 1..Len(TextureCatalog) : TextureCatalog'[i] = TextureCatalog[i]
      ]_vars

\* a successful load has appended an entry whose tag an earlier entry has too
LoadAppendsWitness ==
    /\ LoadedSupported(sceneCall)
    /\ sceneCall.ret = TRUE
    /\ m_loadedTextures >= 2
    /\ \E i \in 1..(m_loadedTextures - 1) :
           TextureCatalog[i].tag = TextureCatalog[m_loadedTextures].tag

\* C8: a CreateGLTexture call whose image does not decode, or decodes with a
\* channel count other than 3 and 4, returns false and leaves the catalog
\* (its length and every entry) unchanged.
LoadFailureKeepsCatalog ==
    [][(sceneCall'.op = "CreateGLTexture" /\ ~LoadedSupported(sceneCall')) =>
         /\ sceneCall'.ret = FALSE
         /\ TextureCatalog' = TextureCatalog
      ]_vars

\* a load of an image with an unsupported channel count has failed on a
\* catalog that holds entries
LoadFailureWitness ==
    /\ sceneCall.op = "CreateGLTexture"
    /\ sceneCall.decoded.image
    /\ sceneCall.decoded.colorChannels \in {1, 2}
    /\ sceneCall.ret = FALSE
    /\ m_loadedTextures >= 1

\* the position (from 0) of the first entry of catalog cat with the tag, or -1
FirstWithTag(cat, tag) ==
    IF \E i \in 1..Len(cat) : cat[i].tag = tag
    THEN (CHOOSE i \in 1..Len(cat) :
              /\ cat[i].tag = tag
              /\ \A j \in 1..(i - 1) : cat[j].tag # tag) - 1
    ELSE -1

\* C9: FindTextureSlot returns the smallest catalog position whose entry has
\* the tag and -1 when none has; the result is within -1 .. length-1 and the
\* call leaves the catalog as it was.
FindTextureSlotFirstMatch ==
    [][sceneCall'.op = "FindTextureSlot" =>
         /\ sceneCall'.ret = FirstWithTag(TextureCatalog, sceneCall'.tag)
         /\ sceneCall'.ret >= -1
         /\ sceneCall'.ret <= Len(TextureCatalog) - 1
         /\ TextureCatalog' = TextureCatalog
      ]_vars

\* the empty tag has been looked up in a catalog that holds it twice
FindTextureSlotWitness ==
    /\ sceneCall.op = "FindTextureSlot"
    /\ sceneCall.tag = ""
    /\ sceneCall.ret = 0
    /\ m_loadedTextures >= 3
    /\ TextureCatalog[3].tag = ""
    /\ TextureCatalog[2].tag # ""

\* C10: FindMaterial reports found, and yields the five coefficients of the
\* first entry with the tag, when the catalog has such an entry; it reports
\* not found when the catalog has none, empty or not.
FindMaterialReportsMiss ==
    sceneCall.op = "FindMaterial" =>
        IF FirstWithTag(m_objectMaterials, sceneCall.tag) >= 0
        THEN /\ sceneCall.ret = TRUE
             /\ Coefficients(sceneCall.material) =
                    Coefficients(m_objectMaterials[FirstWithTag(m_objectMaterials, sceneCall.tag) + 1])
        ELSE sceneCall.ret = FALSE

-----------------------------------------------------------------------------
(* Materials reaching the shader *)

\* the tags SetShaderMaterial is called with: the five of the scene and two
\* that no material has
PushedMaterialTags == {"", "grass", "dirt", "brick", "hedge", "foliage", "stone"}

MaterialNext ==
    \/ DefineObjectMaterials /\ UNCHANGED viewVars
    \/ \E tag \in MaterialTags, material \in CallerMaterials :
          CallFindMaterial(tag, material) /\ UNCHANGED viewVars
    \/ \E tag \in PushedMaterialTags, material \in CallerMaterials :
          CallSetShaderMaterial(tag, material) /\ UNCHANGED viewVars

MaterialSpec == SceneInitAny /\ [][MaterialNext]_vars

\* C11: with a shader manager, SetShaderMaterial of a tag that is not in the
\* material catalog uploads no material uniform and the five material
\* uniforms keep their values; of a tag that is in the catalog it uploads
\* exactly the five coefficients of the first entry with the tag.
SetShaderMaterialUploads ==
    [][(sceneCall'.op = "SetShaderMaterial" /\ m_pShaderManager # "NULL")
         => IF FirstWithTag(m_objectMaterials, sceneCall'.tag) >= 0
            THEN /\ sceneCall'.uploads = MaterialUniforms
                 /\ uniforms'.material =
                        Coefficients(m_objectMaterials[FirstWithTag(m_objectMaterials, sceneCall'.tag) + 1])
            ELSE /\ sceneCall'.uploads = << >>
                 /\ uniforms'.material = uniforms.material]_vars

\* SetShaderMaterial of a tag that is in the catalog uploads exactly the five
\* coefficients of the first entry with the tag
SetShaderMaterialHit ==
    [][(sceneCall'.op = "SetShaderMaterial" /\ m_pShaderManager # "NULL"
          /\ FirstWithTag(m_objectMaterials, sceneCall'.tag) >= 0)
         => /\ sceneCall'.uploads = MaterialUniforms
            /\ uniforms'.material =
                   Coefficients(m_objectMaterials[FirstWithTag(m_objectMaterials, sceneCall'.tag) + 1])]_vars

-----------------------------------------------------------------------------
(* Textures reaching the shader *)

\* the files of this specification decode to no image, to RGB or to grey
TextureDecodes ==
    {[image |-> FALSE, colorChannels |-> 0], [image |-> TRUE, colorChannels |-> 3],
     [image |-> TRUE, colorChannels |-> 1]}

TextureNext ==
    \/ \E decoded \in TextureDecodes, tag \in TextureTags :
          CallCreateGLTexture(decoded, tag) /\ UNCHANGED viewVars
    \/ CallBindGLTextures /\ UNCHANGED viewVars
    \/ CallDestroyGLTextures /\ UNCHANGED viewVars
    \/ \E tag \in TextureTags :
          CallSetShaderTexture(tag) /\ UNCHANGED viewVars

TextureSpec == SceneInitAny /\ [][TextureNext]_vars

\* C12: with a shader manager, SetShaderTexture turns bUseTexture on and
\* uploads as objectTexture the position FindTextureSlot gives for the tag
\* (the first entry with the tag), which for a tag no entry has is -1; these
\* two uploads are all it does and no fault or error comes of it.
SetShaderTextureUploadsSlot ==
    [][(sceneCall'.op = "SetShaderTexture" /\ m_pShaderManager # "NULL")
         => /\ sceneCall'.uploads = << "bUseTexture", "objectTexture" >>
            /\ uniforms'.bUseTexture = TRUE
            /\ uniforms'.objectTexture = FirstWithTag(TextureCatalog, sceneCall'.tag)
            /\ (\A i \in 1..Len(TextureCatalog) : TextureCatalog[i].tag # sceneCall'.tag)
                  => uniforms'.objectTexture = -1
            /\ faulted' = FALSE
            /\ TextureCatalog' = TextureCatalog]_vars

\* a tag no entry of a non-empty catalog has was pushed: the sampler is -1
SetShaderTextureWitness ==
    /\ sceneCall.op = "SetShaderTexture"
    /\ m_pShaderManager # "NULL"
    /\ m_loadedTextures >= 2
    /\ \A i \in 1..Len(TextureCatalog) : TextureCatalog[i].tag # sceneCall.tag
    /\ uniforms.bUseTexture = TRUE
    /\ uniforms.objectTexture = -1

-----------------------------------------------------------------------------
(* The model matrix *)

\* scales, rotations (whole quarter turns about X, Y, Z) and positions the
\* transform is set with
TransformScales == { <<One, One, One>>, <<2 * One, One, One>>, <<2 * One, 3 * One, 5000>> }
TransformRotations == {0, 90} \X {0, 90} \X {0, 90}
TransformPositions == { <<0, 0, 0>>, <<One, 0, 0>>, <<One, -2 * One, 3 * One>> }
TransformUVs == { <<100, 100>>, <<400, 200>> }
TransformColors == { <<100, 100, 100, 100>>, <<50, 0, 0, 100>> }

TransformNext ==
    \/ \E scaleXYZ \in TransformScales, rotation \in TransformRotations,
          positionXYZ \in TransformPositions :
          CallSetTransformations(scaleXYZ, rotation, positionXYZ) /\ UNCHANGED viewVars
    \/ \E uv \in TransformUVs :
          CallSetTextureUVScale(uv[1], uv[2]) /\ UNCHANGED viewVars
    \/ \E color \in TransformColors :
          CallSetShaderColor(color) /\ UNCHANGED viewVars

TransformSpec == SceneInitAny /\ [][TransformNext]_vars

\* a point scaled, then turned about Z, then about Y, then about X, then moved
ScalePoint(s, v) == << Mul4(s[1], v[1]), Mul4(s[2], v[2]), Mul4(s[3], v[3]) >>
TurnZ(d, v) == << Mul4(Cos(d), v[1]) - Mul4(Sin(d), v[2]), Mul4(Sin(d), v[1]) + Mul4(Cos(d), v[2]), v[3] >>
TurnY(d, v) == << Mul4(Cos(d), v[1]) + Mul4(Sin(d), v[3]), v[2], Mul4(Cos(d), v[3]) - Mul4(Sin(d), v[1]) >>
TurnX(d, v) == << v[1], Mul4(Cos(d), v[2]) - Mul4(Sin(d), v[3]), Mul4(Sin(d), v[2]) + Mul4(Cos(d), v[3]) >>
Placed(scaleXYZ, rotation, positionXYZ, v) ==
    VAdd(TurnX(rotation[1], TurnY(rotation[2], TurnZ(rotation[3], ScalePoint(scaleXYZ, v)))),
         positionXYZ)

\* the points the matrices are tried on
TransformPoints == { <<0, 0, 0>>, <<One, 0, 0>>, <<0, One, 0>>, <<0, 0, One>>, <<One, 2 * One, -3 * One>> }

\* the transform of the claim's example has been set
GoldenTransform ==
    /\ sceneCall.op = "SetTransformations"
    /\ sceneCall.scaleXYZ = <<2 * One, One, One>>
    /\ sceneCall.rotation = <<0, 90, 0>>
    /\ sceneCall.positionXYZ = <<One, 0, 0>>

\* C13: with a shader manager, the model matrix SetTransformations uploads
\* takes every point to the point scaled first, then rotated about Z, Y and
\* X in that order, then translated (Translation x RotationX x RotationY x
\* RotationZ x Scale); for scale (2,1,1), rotation (0,90,0), translation
\* (1,0,0) it takes (0,0,0,1) to (1,0,0,1) and (1,0,0,1) to (1,0,-2,1).
ModelMatrixOrder ==
    (sceneCall.op = "SetTransformations" /\ m_pShaderManager # "NULL")
      => /\ sceneCall.uploads = << "model" >>
         /\ \A v \in TransformPoints :
               MatVec(uniforms.model, << v[1], v[2], v[3], One >>) =
                  LET w == Placed(sceneCall.scaleXYZ, sceneCall.rotation, sceneCall.positionXYZ, v)
                  IN  << w[1], w[2], w[3], One >>
         /\ GoldenTransform =>
               /\ MatVec(uniforms.model, <<0, 0, 0, One>>) = <<One, 0, 0, One>>
               /\ MatVec(uniforms.model, <<One, 0, 0, One>>) = <<One, 0, -2 * One, One>>

\* the example's transform was uploaded and takes (1,0,0,1) to (1,0,-2,1)
ModelMatrixWitness ==
    /\ GoldenTransform
    /\ m_pShaderManager # "NULL"
    /\ sceneCall.uploads = << "model" >>
    /\ MatVec(uniforms.model, <<One, 0, 0, One>>) = <<One, 0, -2 * One, One>>

-----------------------------------------------------------------------------
(* Preparing and rendering the scene *)

\* the files of the scene: one in `failed` is missing if its position is odd
\* and grey-scale if it is even, the others decode to RGB
SceneDecodes(failed) ==
    [i \in 1..Len(SceneTextureTags) |->
        IF i \notin failed THEN [image |-> TRUE, colorChannels |-> 3]
        ELSE IF i % 2 = 1 THEN [image |-> FALSE, colorChannels |-> 0]
        ELSE [image |-> TRUE, colorChannels |-> 1]]

\* the tags of RenderScene are all in the material catalog whenever it is not
\* empty, so what the uninitialised local holds is never uploaded in a frame
FrameMaterials == { Material("", <<7, 7, 7>>, 7, <<7, 7, 7>>, <<7, 7, 7>>, 7) }

RenderNext ==
    \/ \E failed \in SUBSET (1..Len(SceneTextureTags)) :
          PrepareScene(SceneDecodes(failed)) /\ UNCHANGED viewVars
    \/ \E material \in FrameMaterials :
          RenderScene(material) /\ UNCHANGED viewVars
    \/ CallSwitchToOrthographic /\ UNCHANGED sceneVars

RenderSpec == SceneInitAny /\ [][RenderNext]_vars

\* the frame is the latest thing the scene manager did
Rendered == sceneCall.op = "RenderScene"

\* the positions of the draw calls in the frame
FrameDraws == {k \in 1..Len(frameCalls) : frameCalls[k].call \in DrawCalls}

\* the position of the draw call before position k, 0 if there is none
PreviousDraw(k) ==
    IF \E j \in FrameDraws : j < k
    THEN CHOOSE j \in FrameDraws : j < k /\ \A i \in FrameDraws : i < k => i <= j
    ELSE 0

IsPusher(e) == e.call \in PusherCalls

\* the pushers issued after the previous draw call and before the one at k
PushedFor(k) ==
    LET pushed == SelectSeq(SubSeq(frameCalls, PreviousDraw(k) + 1, k - 1), IsPusher)
    IN  [i \in 1..Len(pushed) |-> pushed[i].call]

\* the tag of the latest `call` before position k, "" if there is none
InEffect(k, call) ==
    IF \E j \in 1..(k - 1) : frameCalls[j].call = call
    THEN frameCalls[CHOOSE j \in 1..(k - 1) :
                       /\ frameCalls[j].call = call
                       /\ \A i \in (j + 1)..(k - 1) : frameCalls[i].call # call].tag
    ELSE ""

\* the draw at k is a brick of the path, the first one of the path
IsBrick(k) == frameCalls[k].call = "DrawBoxMesh" /\ InEffect(k, "SetShaderTexture") = "brick"
IsFirstBrick(k) == IsBrick(k) /\ (PreviousDraw(k) = 0 \/ ~IsBrick(PreviousDraw(k)))

FourPushes == << "SetTransformations", "SetTextureUVScale", "SetShaderMaterial", "SetShaderTexture" >>

\* C14: BindGLTextures binds the handle of catalog entry i to texture unit i
\* for every i below the catalog's length; so after PrepareScene, whichever
\* of the five loads failed, the unit index a frame's SetShaderTexture
\* uploads for a tag that loaded is a unit to which a handle registered
\* under that tag is bound.
TexturesBoundToUploadedUnits ==
    /\ \A i \in 0..(m_loadedTextures - 1) : glTextureUnits[i] = m_textureIDs[i].ID
    /\ Rendered =>
         \A k \in 1..Len(frameCalls) :
            ( /\ frameCalls[k].call = "SetShaderTexture"
              /\ frameCalls[k].uploads # << >>
              /\ \E j \in 0..(m_loadedTextures - 1) : m_textureIDs[j].tag = frameCalls[k].tag )
            => /\ frameCalls[k].objectTexture \in 0..(TextureSlots - 1)
               /\ \E j \in 0..(m_loadedTextures - 1) :
                     /\ m_textureIDs[j].tag = frameCalls[k].tag
                     /\ glTextureUnits[frameCalls[k].objectTexture] = m_textureIDs[j].ID

\* a frame after a PrepareScene in which some loads failed, one of them on
\* the channel count: a tag that loaded was pushed, and the unit uploaded for
\* it has a handle that is not its position plus one
TexturesBoundWitness ==
    /\ Rendered
    /\ m_pShaderManager # "NULL"
    /\ m_loadedTextures \in 1..4
    /\ glGenerated > m_loadedTextures
    /\ \E k \in 1..Len(frameCalls) :
          /\ frameCalls[k].call = "SetShaderTexture"
          /\ frameCalls[k].objectTexture >= 0
          /\ m_textureIDs[frameCalls[k].objectTexture].tag = frameCalls[k].tag
          /\ glTextureUnits[frameCalls[k].objectTexture] # frameCalls[k].objectTexture + 1
          /\ glTextureUnits[frameCalls[k].objectTexture] = m_textureIDs[frameCalls[k].objectTexture].ID

RECURSIVE Nth(_, _)
Nth(S, n) ==
    LET least == CHOOSE x \in S : \A y \in S : x <= y
    IN  IF n = 1 THEN least ELSE Nth(S \ {least}, n - 1)

\* the draw calls of the frame in order, each with the material tag and the
\* texture tag in effect
FrameDrawList ==
    [n \in 1..Cardinality(FrameDraws) |->
        [draw |-> frameCalls[Nth(FrameDraws, n)].call,
         material |-> InEffect(Nth(FrameDraws, n), "SetShaderMaterial"),
         texture |-> InEffect(Nth(FrameDraws, n), "SetShaderTexture")]]

Drawn(draw, tag) == [draw |-> draw, material |-> tag, texture |-> tag]

\* plane(grass), plane(dirt), ten boxes(brick), box(hedge) and
\* pyramid4(foliage), then three times box(hedge) and cone(foliage)
SceneDraws ==
    << Drawn("DrawPlaneMesh", "grass"), Drawn("DrawPlaneMesh", "dirt") >>
    \o [i \in 1..10 |-> Drawn("DrawBoxMesh", "brick")]
    \o << Drawn("DrawBoxMesh", "hedge"), Drawn("DrawPyramid4Mesh", "foliage") >>
    \o << Drawn("DrawBoxMesh", "hedge"), Drawn("DrawConeMesh", "foliage"),
          Drawn("DrawBoxMesh", "hedge"), Drawn("DrawConeMesh", "foliage"),
          Drawn("DrawBoxMesh", "hedge"), Drawn("DrawConeMesh", "foliage") >>

\* C16: every RenderScene issues exactly 20 draw calls, in the same order:
\* plane(grass), plane(dirt), ten boxes(brick), box(hedge) and
\* pyramid4(foliage), then three times box(hedge) and cone(foliage); the
\* sequence and the material and texture tag in effect at each draw are the
\* same in every frame, whatever the frame number, the camera and the catalogs.
FrameDrawsFixed ==
    Rendered =>
       /\ Cardinality(FrameDraws) = 20
       /\ FrameDrawList = SceneDraws
       /\ faulted = FALSE

\* the second frame in a row has been drawn, with the camera in orthographic
\* mode, and its last draw is a cone with the foliage tags
FrameDrawsWitness ==
    /\ Rendered
    /\ meshLoads["cone"] - meshLoads["plane"] = 2
    /\ bOrthographicProjection = TRUE
    /\ Cardinality(FrameDraws) = 20
    /\ FrameDrawList[20] = Drawn("DrawConeMesh", "foliage")

\* the tags RenderScene pushes
RenderTags ==
    {RenderCalls[i].tag : i \in {j \in 1..Len(RenderCalls) :
                                    RenderCalls[j].call \in {"SetShaderMaterial", "SetShaderTexture"}}}

TagsOf(cat) == [i \in 1..Len(cat) |-> cat[i].tag]

\* every file decodes to an image of 3 or 4 channels
AllLoadsSucceed(decodes) ==
    \A i \in DOMAIN decodes : decodes[i].image /\ decodes[i].colorChannels \in {3, 4}

\* C17: after the PrepareScene of a new scene manager in which all five loads
\* succeed, the texture catalog is exactly grass, dirt, brick, hedge, foliage
\* at positions 0..4, the material catalog has exactly five entries with the
\* same tags, the tags are unique in each, and every material tag and every
\* texture tag RenderScene pushes is found.
PreparedCatalogs ==
    [][( /\ sceneCall'.op = "PrepareScene"
         /\ AllLoadsSucceed(sceneCall'.decodes)
         /\ m_loadedTextures = 0
         /\ m_objectMaterials = << >> )
        => /\ TagsOf(TextureCatalog') = << "grass", "dirt", "brick", "hedge", "foliage" >>
           /\ m_loadedTextures' = 5
           /\ TagsOf(m_objectMaterials') = << "grass", "dirt", "brick", "hedge", "foliage" >>
           /\ \A tag \in RenderTags :
                 /\ FirstWithTag(TextureCatalog', tag) >= 0
                 /\ FindTextureSlot(tag)' >= 0
                 /\ FirstWithTag(m_objectMaterials', tag) >= 0
           /\ RenderTags = {"grass", "dirt", "brick", "hedge", "foliage"}]_vars

\* a PrepareScene in which all five loads succeeded has filled both catalogs
PreparedCatalogsWitness ==
    /\ sceneCall.op = "PrepareScene"
    /\ AllLoadsSucceed(sceneCall.decodes)
    /\ meshLoads["plane"] = 1
    /\ m_loadedTextures = 5
    /\ Len(m_objectMaterials) = 5
    /\ FindTextureSlot("foliage") = 4

\* C19: over one PrepareScene followed by any number of frames each mesh
\* (plane, box, pyramid4, cone) is loaded exactly once; a RenderScene loads
\* no mesh and changes neither the texture catalog nor the material catalog.
MeshesLoadedAtSetupOnly ==
    [][ /\ meshLoads'["plane"] = 1 => \A m \in Meshes : meshLoads'[m] = 1
        /\ sceneCall'.op = "RenderScene"
              => /\ meshLoads' = meshLoads
                 /\ TextureCatalog' = TextureCatalog
                 /\ m_objectMaterials' = m_objectMaterials ]_vars

\* a RenderScene changes neither the texture catalog nor the material catalog
RenderSceneKeepsCatalogs ==
    [][sceneCall'.op = "RenderScene"
          => /\ TextureCatalog' = TextureCatalog
             /\ m_objectMaterials' = m_objectMaterials]_vars

-----------------------------------------------------------------------------
(* Texture objects *)

\* C18: DestroyGLTextures frees every texture of the catalog: after the call
\* none of the texture objects the successful loads allocated is allocated
\* any more, and the call creates no texture object.
DestroyFreesTextures ==
    [][sceneCall'.op = "DestroyGLTextures"
          => /\ \A i \in 1..Len(TextureCatalog) : TextureCatalog[i].ID \notin GLTextures'
             /\ GLTextures' \subseteq GLTextures]_vars

\* C20: a CreateGLTexture that returns false leaves the set of allocated
\* texture objects as it was and holds no decoded image buffer afterwards,
\* whether the file did not decode or has an unsupported channel count; so
\* after any sequence of loads there are as many allocated texture objects
\* as catalog entries.
FailedLoadLeavesNothing ==
    [][ /\ (sceneCall'.op = "CreateGLTexture" /\ sceneCall'.ret = FALSE)
            => /\ GLTextures' = GLTextures
               /\ imagesHeld' = 0
        /\ Cardinality(GLTextures') = m_loadedTextures' ]_vars

\* a CreateGLTexture on a file that does not decode allocates nothing and
\* holds no buffer
UndecodedLoadLeavesNothing ==
    [][(sceneCall'.op = "CreateGLTexture" /\ ~sceneCall'.decoded.image /\ imagesHeld = 0)
          => /\ GLTextures' = GLTextures
             /\ imagesHeld' = 0]_vars

-----------------------------------------------------------------------------
(* The five pushers and the shader manager *)

PusherTags == {"", "grass", "stone"}
PusherScales == { <<One, One, One>>, <<2 * One, 3 * One, 5000>> }
PusherRotations == { <<0, 0, 0>>, <<0, 90, 0>> }
PusherPositions == { <<0, 0, 0>>, <<One, -2 * One, 3 * One>> }

PusherNext ==
    \/ DefineObjectMaterials /\ UNCHANGED viewVars
    \/ \E tag \in PusherTags, material \in CallerMaterials :
          CallSetShaderMaterial(tag, material) /\ UNCHANGED viewVars
    \/ \E tag \in PusherTags :
          CallSetShaderTexture(tag) /\ UNCHANGED viewVars
    \/ \E color \in TransformColors :
          CallSetShaderColor(color) /\ UNCHANGED viewVars
    \/ \E uv \in TransformUVs :
          CallSetTextureUVScale(uv[1], uv[2]) /\ UNCHANGED viewVars
    \/ \E scaleXYZ \in PusherScales, rotation \in PusherRotations,
          positionXYZ \in PusherPositions :
          CallSetTransformations(scaleXYZ, rotation, positionXYZ) /\ UNCHANGED viewVars

PusherSpec == SceneInitAny /\ [][PusherNext]_vars

Pushers == {"SetTransformations", "SetShaderColor", "SetShaderTexture",
            "SetTextureUVScale", "SetShaderMaterial"}

\* C21: without a shader manager each of the five pushers returns without
\* an upload: SetTransformations, SetShaderColor, SetShaderTexture,
\* SetTextureUVScale, and SetShaderMaterial with a material catalog that is
\* not empty, leave every uniform as it was and the process running.
NullShaderPushersAreNoOps ==
    [][(m_pShaderManager = "NULL" /\ sceneCall'.op \in Pushers)
          => /\ sceneCall'.uploads = << >>
             /\ uniforms' = uniforms
             /\ ~faulted']_vars

\* without a shader manager the four pushers that test the pointer upload
\* nothing and leave the process running
NullShaderGuardedPushers ==
    [][(m_pShaderManager = "NULL" /\ sceneCall'.op \in Pushers \ {"SetShaderMaterial"})
          => /\ sceneCall'.uploads = << >>
             /\ uniforms' = uniforms
             /\ ~faulted']_vars

\* without a shader manager SetShaderMaterial returns only while the
\* material catalog is empty
NullShaderMaterialEmptyCatalog ==
    [][(m_pShaderManager = "NULL" /\ sceneCall'.op = "SetShaderMaterial")
          => /\ sceneCall'.uploads = << >>
             /\ uniforms' = uniforms
             /\ faulted' = (Len(m_objectMaterials) > 0)]_vars

-----------------------------------------------------------------------------
(* The P key and the O key in one frame *)

\* the P key and the O key both went down in the frame of this step
BothToggleKeysPressed ==
    /\ lastOp' = "PrepareSceneView"
    /\ toggleKeys = {}
    /\ toggleKeys' = {"P", "O"}

\* the front and up vectors the camera derives from the yaw and pitch of c
Derived(c) == [Front |-> updateCameraVectors(c).Front, Up |-> updateCameraVectors(c).Up]

\* C22: a frame in which the P key and the O key both go down handles P
\* before O and ends in ORTHOGRAPHIC mode. From PERSPECTIVE only the switch
\* to orthographic takes effect: the live pose is saved in the perspective
\* slot and the orthographic slot is loaded. From ORTHOGRAPHIC the camera
\* goes to perspective and back: the live pose is saved in the orthographic
\* slot and loaded again, and the perspective slot is loaded and saved again.
\* (The movement keys of the frame act first and change the position only.)
BothToggleKeysEndOrthographic ==
    [][BothToggleKeysPressed =>
         /\ calls' = << "SwitchToPerspective", "SwitchToOrthographic" >>
         /\ bOrthographicProjection'
         /\ IF ~bOrthographicProjection
            THEN /\ [perspective' EXCEPT !.Position = << >>]
                        = [Pose(g_pCamera) EXCEPT !.Position = << >>]
                 /\ gDeltaTime' = 0 => perspective'.Position = g_pCamera.Position
                 /\ orthographic' = orthographic
                 /\ g_pCamera'.Position = orthographic.Position
                 /\ g_pCamera'.Yaw = orthographic.Yaw
                 /\ g_pCamera'.Pitch = orthographic.Pitch
            ELSE /\ [orthographic' EXCEPT !.Position = << >>]
                        = [Pose(g_pCamera) EXCEPT !.Position = << >>]
                 /\ gDeltaTime' = 0 => orthographic'.Position = g_pCamera.Position
                 /\ g_pCamera'.Position = orthographic'.Position
                 /\ g_pCamera'.Yaw = g_pCamera.Yaw
                 /\ g_pCamera'.Pitch = g_pCamera.Pitch
                 /\ perspective'.Position = perspective.Position
                 /\ perspective'.Yaw = perspective.Yaw
                 /\ perspective'.Pitch = perspective.Pitch
                 /\ perspective'.Front = Derived(perspective').Front
                 /\ perspective'.Up = Derived(perspective').Up
      ]_vars

\* a frame with P and O has gone from ORTHOGRAPHIC to perspective and back:
\* the orthographic slot holds the live pose and the perspective slot has
\* been saved again, with the front the camera derived
BothToggleKeysWitness ==
    /\ lastOp = "PrepareSceneView"
    /\ toggleKeys = {"P", "O"}
    /\ calls = << "SwitchToPerspective", "SwitchToOrthographic" >>
    /\ bOrthographicProjection
    /\ orthographic.Position = g_pCamera.Position
    /\ orthographic.Position # << 0, 15000000, 0 >>
    /\ perspective.Front # << 0, -5000, -20000 >>

-----------------------------------------------------------------------------
(* The saved poses and the input events *)

InputMouse == {<<0, 0>>, <<900, 0>>}
InputScrolls == {30}
InputKeySets == {{}, {"W"}, {"P"}, {"O"}}
InputSpec == Init /\ [][ViewNextOn(InputMouse, InputScrolls, InputKeySets, {1})]_vars

\* the step is an input event that invokes no mode switch: a mouse move, a
\* scroll, or a frame whose keys toggle nothing
InputWithoutSwitch ==
    \/ lastOp' = "Mouse_Position_Callback"
    \/ lastOp' = "Mouse_Scroll_Callback"
    \/ lastOp' = "PrepareSceneView" /\ calls' = << >>

\* C23: a movement key, a mouse move or a scroll leaves the saved
\* orthographic pose and the saved perspective pose (position, front, up,
\* yaw, pitch) as they were, in either mode; the orthographic slot changes
\* only in a step that runs SwitchToPerspective from ORTHOGRAPHIC and the
\* perspective slot only in a step that runs SwitchToOrthographic.
DormantSlotUntouched ==
    [][/\ InputWithoutSwitch =>
              /\ orthographic' = orthographic
              /\ perspective' = perspective
              /\ bOrthographicProjection' = bOrthographicProjection
       /\ orthographic' # orthographic =>
              /\ Invoked("SwitchToPerspective", calls')
              /\ bOrthographicProjection
       /\ perspective' # perspective => Invoked("SwitchToOrthographic", calls')
      ]_vars

\* in ORTHOGRAPHIC mode the user has moved, turned and changed the speed of
\* the live camera, and the perspective slot still holds the pose saved by
\* the switch
DormantSlotWitness ==
    /\ bOrthographicProjection
    /\ lastOp = "Mouse_Scroll_Callback"
    /\ gCameraSpeed = MAX_CAMERA_SPEED
    /\ g_pCamera.Position # orthographic.Position
    /\ g_pCamera.Yaw # orthographic.Yaw
    /\ perspective.Position = << 0, 5000000, 12000000 >>
    /\ perspective.Front = << 0, -5000, -20000 >>
    /\ orthographic.Position = << 0, 15000000, 0 >>

-----------------------------------------------------------------------------
(* Front and up after a mode switch *)

\* the front and up of c are the ones its yaw and pitch give
Consistent(c) == c.Front = Derived(c).Front /\ c.Up = Derived(c).Up

\* the live camera after SwitchToOrthographic then SwitchToPerspective
RoundTrip == SwitchToPerspective(SwitchToOrthographic(ViewState)).cam

\* C24: after every mode switch that takes effect the front and up of the
\* live camera are the ones derived from its yaw and pitch. So from
\* PERSPECTIVE, SwitchToOrthographic then SwitchToPerspective restores
\* position, yaw and pitch for every pose, and restores front and up
\* exactly for the poses whose front and up were the derived ones.
SwitchDerivesFrontAndUp ==
    /\ [](~bOrthographicProjection =>
             /\ RoundTrip.Position = g_pCamera.Position
             /\ RoundTrip.Yaw = g_pCamera.Yaw
             /\ RoundTrip.Pitch = g_pCamera.Pitch
             /\ (RoundTrip.Front = g_pCamera.Front /\ RoundTrip.Up = g_pCamera.Up)
                    <=> Consistent(g_pCamera))
    /\ [][bOrthographicProjection' # bOrthographicProjection => Consistent(g_pCamera')]_vars

\* a round trip has come back to PERSPECTIVE at the initial position, yaw
\* and pitch with the derived front, not the front it had saved
SwitchDerivesWitness ==
    /\ ~bOrthographicProjection
    /\ lastOp = "SwitchToPerspective"
    /\ g_pCamera.Position = << 0, 5000000, 12000000 >>
    /\ g_pCamera.Yaw = -90
    /\ g_pCamera.Pitch = 0
    /\ g_pCamera.Front = << 0, 0, -10000 >>
    /\ perspective.Front = << 0, -5000, -20000 >>

====
